---- MODULE Spec2Model ----
(***************************************************************************)
(* The hourly dispatch engine of the microgrid simulator (script.js):      *)
(* battery model, dispatchHour, the baseline and smart policies and        *)
(* simulateDay.  Powers, energies and prices are exact rationals <<n, d>>  *)
(* in lowest terms with d > 0 (the real-number reading of the JavaScript   *)
(* arithmetic; IEEE rounding is not modelled).                             *)
(***************************************************************************)
EXTENDS Integers, Sequences, FiniteSets, TLC

\* ------------------------------------------------------------------------
\* Exact rational arithmetic
\* ------------------------------------------------------------------------
Abs(x) == IF x < 0 THEN -x ELSE x

RECURSIVE GCD(_, _)
GCD(a, b) == IF b = 0 THEN a ELSE GCD(b, a % b)

Norm(n, d) ==
    LET g == GCD(Abs(n), Abs(d))
        s == IF d < 0 THEN -1 ELSE 1
    IN  <<(s * n) \div g, (s * d) \div g>>

Q(n) == <<n, 1>>
Zero == Q(0)

RAdd(x, y) ==
    IF x[2] = y[2] THEN Norm(x[1] + y[1], x[2])
    ELSE LET g == GCD(x[2], y[2])
         IN  Norm(x[1] * (y[2] \div g) + y[1] * (x[2] \div g), (x[2] \div g) * y[2])

RNeg(x) == <<-x[1], x[2]>>
RSub(x, y) == RAdd(x, RNeg(y))

RMul(x, y) ==
    LET g1 == GCD(Abs(x[1]), y[2])
        g2 == GCD(Abs(y[1]), x[2])
    IN  IF x[1] = 0 \/ y[1] = 0 THEN Zero
        ELSE <<(x[1] \div g1) * (y[1] \div g2), (x[2] \div g2) * (y[2] \div g1)>>

RInv(x) == IF x[1] < 0 THEN <<-x[2], -x[1]>> ELSE <<x[2], x[1]>>
RDiv(x, y) == RMul(x, RInv(y))

RLe(x, y) ==
    IF x[2] = y[2] THEN x[1] <= y[1]
    ELSE LET g == GCD(x[2], y[2])
         IN  x[1] * (y[2] \div g) <= y[1] * (x[2] \div g)

RLt(x, y) == ~RLe(y, x)
RMin(x, y) == IF RLe(x, y) THEN x ELSE y
RMax(x, y) == IF RLe(x, y) THEN y ELSE x

\* script.js: clamp(value, min, max) = Math.max(min, Math.min(max, value))
clamp(value, min, max) == RMax(min, RMin(max, value))

\* ------------------------------------------------------------------------
\* Program constants
\* ------------------------------------------------------------------------
HoursPerDay == 24
FirstPeakHour == 17
LastPeakHour == 22
\* CONFIG.PEAK_HOURS: [17, 18, 19, 20, 21, 22]
PEAK_HOURS == FirstPeakHour..LastPeakHour
Hours == 0..(HoursPerDay - 1)

minGridDraw == <<1, 2>>          \* 0.5 kW grid tie-in draw during peak
deficitThreshold == <<1, 2>>     \* dayHasDeficit: total deficit > 0.5
tariffEpsilon == <<1, 100>>      \* inputs.tariff > offPeakTariff + 0.01
priceGapThreshold == <<1, 2>>    \* priceGap < 0.5
peakDeficitWeight == <<3, 5>>    \* remainingPeakDeficit * 0.6
dieselRiskWeight == <<4, 5>>     \* dieselRisk * 0.8
targetSocFraction == <<9, 10>>   \* capacityKwh * 0.9
etaMin == <<1, 100>>             \* Math.max(0.01, ...)
etaMax == <<999, 1000>>          \* Math.min(0.999, ...)
Hundred == Q(100)

\* Math.sqrt on the efficiencies the model draws: the rational whose square
\* is the argument (only arguments with a rational root occur).
SqrtRoots == {<<1, 10>>, <<1, 2>>, <<9, 10>>}
Sqrt(q) == CHOOSE r \in SqrtRoots : RMul(r, r) = q

\* ------------------------------------------------------------------------
\* Tariff
\* ------------------------------------------------------------------------
getGridTariffForHour(hour, baseGridPrice, peakFactor) ==
    IF hour \in PEAK_HOURS THEN RMul(baseGridPrice, peakFactor) ELSE baseGridPrice

\* ------------------------------------------------------------------------
\* Battery model
\* ------------------------------------------------------------------------
createBatteryModel(params) ==
    LET eta == RMax(etaMin, RMin(etaMax, params.roundTripEfficiency))
        etaC == Sqrt(eta)
        etaD == Sqrt(eta)
        initialSocKwh ==
            clamp(RMul(RDiv(params.initialSocPct, Hundred), params.capacityKwh),
                  Zero, params.capacityKwh)
        minSocKwh ==
            clamp(RMul(RDiv(params.minSocPct, Hundred), params.capacityKwh),
                  Zero, params.capacityKwh)
    IN  [capacityKwh |-> params.capacityKwh,
         socKwh |-> initialSocKwh,
         minSocKwh |-> minSocKwh,
         etaC |-> etaC,
         etaD |-> etaD,
         maxChargeKw |-> params.maxChargeKw,
         maxDischargeKw |-> params.maxDischargeKw]

\* batteryCharge that stores all of the charged power (no charging loss)
batteryChargeLossless(batt, chargeKw) ==
    LET headroomKwh == RSub(batt.capacityKwh, batt.socKwh)
        maxByCapacityKw == RDiv(headroomKwh, batt.etaC)
        actualKw == clamp(chargeKw, Zero, RMin(batt.maxChargeKw, maxByCapacityKw))
    IN  [batt |-> [batt EXCEPT !.socKwh = RAdd(@, actualKw)],
         actualKw |-> actualKw]

\* Returns the battery after the call and the power actually charged.
batteryCharge(batt, chargeKw) ==
    LET headroomKwh == RSub(batt.capacityKwh, batt.socKwh)
        maxByCapacityKw == RDiv(headroomKwh, batt.etaC)
        actualKw == clamp(chargeKw, Zero, RMin(batt.maxChargeKw, maxByCapacityKw))
    IN  [batt |-> [batt EXCEPT !.socKwh = RAdd(@, RMul(actualKw, batt.etaC))],
         actualKw |-> actualKw]

\* batteryDischargeToLoad without the minimum-SOC floor (availableKwh = socKwh)
batteryDischargeIgnoringFloor(batt, demandKw) ==
    LET availableKwh == RMax(Zero, batt.socKwh)
        maxDeliverableKw == RMul(availableKwh, batt.etaD)
        actualKw == clamp(demandKw, Zero, RMin(batt.maxDischargeKw, maxDeliverableKw))
    IN  [batt |-> [batt EXCEPT !.socKwh = RSub(@, RDiv(actualKw, batt.etaD))],
         actualKw |-> actualKw]

\* batteryDischargeToLoad that takes from the battery only what it delivers
\* (no discharging loss)
batteryDischargeLossless(batt, demandKw) ==
    LET availableKwh == RMax(Zero, RSub(batt.socKwh, batt.minSocKwh))
        maxDeliverableKw == RMul(availableKwh, batt.etaD)
        actualKw == clamp(demandKw, Zero, RMin(batt.maxDischargeKw, maxDeliverableKw))
    IN  [batt |-> [batt EXCEPT !.socKwh = RSub(@, actualKw)],
         actualKw |-> actualKw]

\* Returns the battery after the call and the power actually delivered.
batteryDischargeToLoad(batt, demandKw) ==
    LET availableKwh == RMax(Zero, RSub(batt.socKwh, batt.minSocKwh))
        maxDeliverableKw == RMul(availableKwh, batt.etaD)
        actualKw == clamp(demandKw, Zero, RMin(batt.maxDischargeKw, maxDeliverableKw))
    IN  [batt |-> [batt EXCEPT !.socKwh = RSub(@, RDiv(actualKw, batt.etaD))],
         actualKw |-> actualKw]

\* ------------------------------------------------------------------------
\* Policies.  A policy is a record; its three callbacks take the policy and
\* the context {hour, isPeak, battery, inputs} dispatchHour passes them.
\* ------------------------------------------------------------------------
createBaselinePolicy == [name |-> "baseline"]

deficitAt(dayInputs, i) ==
    RMax(Zero, RSub(dayInputs[i].loadKw, dayInputs[i].solarGenKw))

RECURSIVE totalDeficitFrom(_, _)
totalDeficitFrom(dayInputs, i) ==
    IF i >= HoursPerDay THEN Zero
    ELSE RAdd(deficitAt(dayInputs, i), totalDeficitFrom(dayInputs, i + 1))

totalDailyDeficitKwh(dayInputs) == totalDeficitFrom(dayInputs, 0)

RECURSIVE expectedPeakDeficitKwhFrom(_, _)
expectedPeakDeficitKwhFrom(dayInputs, hourIndex) ==
    IF hourIndex >= HoursPerDay THEN Zero
    ELSE IF hourIndex \notin PEAK_HOURS
         THEN expectedPeakDeficitKwhFrom(dayInputs, hourIndex + 1)
         ELSE RAdd(deficitAt(dayInputs, hourIndex),
                   expectedPeakDeficitKwhFrom(dayInputs, hourIndex + 1))

RECURSIVE expectedDieselRiskKwhFrom(_, _, _)
expectedDieselRiskKwhFrom(dayInputs, gridLimitKw, hourIndex) ==
    IF hourIndex >= HoursPerDay THEN Zero
    ELSE IF hourIndex \notin PEAK_HOURS
         THEN expectedDieselRiskKwhFrom(dayInputs, gridLimitKw, hourIndex + 1)
         ELSE RAdd(RMax(Zero, RSub(deficitAt(dayInputs, hourIndex), gridLimitKw)),
                   expectedDieselRiskKwhFrom(dayInputs, gridLimitKw, hourIndex + 1))

createSmartPolicy(dayInputs, config) ==
    [name |-> "smart",
     dayInputs |-> dayInputs,
     gridLimitKw |-> config.gridLimitKw,
     offPeakTariff |-> config.baseGridPrice,
     peakTariff |-> RMul(config.baseGridPrice, config.peakFactor),
     dayHasDeficit |-> RLt(deficitThreshold, totalDailyDeficitKwh(dayInputs))]

\* allowDischarge that never holds the battery back
allowDischargeAlways(policy, ctx) ==
    TRUE

\* allowDischarge of a smart policy that saves the battery for the peak
allowDischargePeakOnly(policy, ctx) ==
    IF policy.name = "baseline" THEN TRUE ELSE ctx.isPeak

allowDischarge(policy, ctx) ==
    IF policy.name = "baseline" THEN TRUE
    ELSE IF RLt(ctx.inputs.solarGenKw, ctx.inputs.loadKw) THEN TRUE
    ELSE IF ctx.isPeak THEN TRUE
    ELSE FALSE

allowGridCharge(policy, ctx) ==
    IF policy.name = "baseline" THEN FALSE
    ELSE IF ctx.isPeak THEN FALSE
    ELSE IF ~policy.dayHasDeficit THEN FALSE
    ELSE IF RLt(RAdd(policy.offPeakTariff, tariffEpsilon), ctx.inputs.tariff) THEN FALSE
    ELSE TRUE

\* targetKwhAt clamped to the whole capacity instead of 90 % of it
targetKwhAtFullCapacity(policy, ctx) ==
    LET remainingPeakDeficit == expectedPeakDeficitKwhFrom(policy.dayInputs, ctx.hour + 1)
        dieselRisk ==
            expectedDieselRiskKwhFrom(policy.dayInputs, policy.gridLimitKw, ctx.hour + 1)
    IN  clamp(RAdd(RMul(remainingPeakDeficit, peakDeficitWeight),
                   RMul(dieselRisk, dieselRiskWeight)),
              Zero, ctx.battery.capacityKwh)

targetKwhAt(policy, ctx) ==
    LET remainingPeakDeficit == expectedPeakDeficitKwhFrom(policy.dayInputs, ctx.hour + 1)
        dieselRisk ==
            expectedDieselRiskKwhFrom(policy.dayInputs, policy.gridLimitKw, ctx.hour + 1)
    IN  clamp(RAdd(RMul(remainingPeakDeficit, peakDeficitWeight),
                   RMul(dieselRisk, dieselRiskWeight)),
              Zero, RMul(ctx.battery.capacityKwh, targetSocFraction))

\* desiredGridChargeKw without the price-gap test
desiredGridChargeKwAnyGap(policy, ctx) ==
    IF policy.name = "baseline" THEN Zero
    ELSE IF ~policy.dayHasDeficit THEN Zero
    ELSE RMin(RMax(Zero, RSub(targetKwhAt(policy, ctx), ctx.battery.socKwh)),
              ctx.battery.maxChargeKw)

desiredGridChargeKw(policy, ctx) ==
    IF policy.name = "baseline" THEN Zero
    ELSE IF ~policy.dayHasDeficit THEN Zero
    ELSE LET needKwh == RMax(Zero, RSub(targetKwhAt(policy, ctx), ctx.battery.socKwh))
             priceGap == RSub(policy.peakTariff, ctx.inputs.tariff)
         IN  IF RLt(priceGap, priceGapThreshold) THEN Zero
             ELSE RMin(needKwh, ctx.battery.maxChargeKw)

\* ------------------------------------------------------------------------
\* dispatchHour, in the order of its numbered steps
\* ------------------------------------------------------------------------
\* gridToLoadStage without step 4b (no tie-in draw during peak)
gridToLoadStageNoTieIn(remainingLoad, gridLimitKw, isPeak) ==
    LET drawn == IF RLt(Zero, remainingLoad) THEN RMin(remainingLoad, gridLimitKw) ELSE Zero
        left == IF RLt(Zero, remainingLoad) THEN RSub(remainingLoad, drawn) ELSE remainingLoad
    IN  [gridToLoadKw |-> drawn, remainingLoad |-> left]

\* gridToLoadStage that takes all of the remaining load from the grid
gridToLoadStageUncapped(remainingLoad, gridLimitKw, isPeak) ==
    LET drawn == IF RLt(Zero, remainingLoad) THEN remainingLoad ELSE Zero
        left == Zero
    IN  [gridToLoadKw |-> IF isPeak /\ RLt(drawn, minGridDraw) THEN minGridDraw ELSE drawn,
         remainingLoad |-> left]

\* gridToLoadStage with the tie-in draw in every hour, peak or not
gridToLoadStageTieInAlways(remainingLoad, gridLimitKw, isPeak) ==
    LET drawn == IF RLt(Zero, remainingLoad) THEN RMin(remainingLoad, gridLimitKw) ELSE Zero
        left == IF RLt(Zero, remainingLoad) THEN RSub(remainingLoad, drawn) ELSE remainingLoad
    IN  [gridToLoadKw |-> IF RLt(drawn, minGridDraw) THEN minGridDraw ELSE drawn,
         remainingLoad |-> left]

\* gridToLoadStage that leaves half of the grid limit unused
gridToLoadStageHalfLimit(remainingLoad, gridLimitKw, isPeak) ==
    LET drawn == IF RLt(Zero, remainingLoad)
                 THEN RMin(remainingLoad, RDiv(gridLimitKw, Q(2))) ELSE Zero
        left == IF RLt(Zero, remainingLoad) THEN RSub(remainingLoad, drawn) ELSE remainingLoad
    IN  [gridToLoadKw |-> IF isPeak /\ RLt(drawn, minGridDraw) THEN minGridDraw ELSE drawn,
         remainingLoad |-> left]

\* 4) Grid -> remaining load (up to the grid limit) and 4b) the grid tie-in
\* draw during peak.  Returns the grid-to-load power and the load left over.
gridToLoadStage(remainingLoad, gridLimitKw, isPeak) ==
    LET drawn == IF RLt(Zero, remainingLoad) THEN RMin(remainingLoad, gridLimitKw) ELSE Zero
        left == IF RLt(Zero, remainingLoad) THEN RSub(remainingLoad, drawn) ELSE remainingLoad
    IN  [gridToLoadKw |-> IF isPeak /\ RLt(drawn, minGridDraw) THEN minGridDraw ELSE drawn,
         remainingLoad |-> left]

\* gridChargeStage that never asks the policy: tops the battery up from
\* whatever grid headroom is left
gridChargeStageUngated(battery, policy, ctx, gridLimitKw, gridToLoadKw) ==
    LET gridHeadroom == RMax(Zero, RSub(gridLimitKw, gridToLoadKw))
    IN  IF RLt(Zero, gridHeadroom)
        THEN batteryCharge(battery, RMin(gridHeadroom, battery.maxChargeKw))
        ELSE [batt |-> battery, actualKw |-> Zero]

\* gridChargeStage that never charges from the grid
gridChargeStageOff(battery, policy, ctx, gridLimitKw, gridToLoadKw) ==
    [batt |-> battery, actualKw |-> Zero]

\* Optional grid -> battery charge, decided by the policy.
gridChargeStage(battery, policy, ctx, gridLimitKw, gridToLoadKw) ==
    IF allowGridCharge(policy, ctx)
    THEN LET gridHeadroom == RMax(Zero, RSub(gridLimitKw, gridToLoadKw))
         IN  IF RLt(Zero, gridHeadroom)
             THEN LET desiredChargeKw == desiredGridChargeKw(policy, ctx)
                      gridChargeKw == RMin(gridHeadroom, RMax(Zero, desiredChargeKw))
                  IN  batteryCharge(battery, gridChargeKw)
             ELSE [batt |-> battery, actualKw |-> Zero]
    ELSE [batt |-> battery, actualKw |-> Zero]

\* hourCost with a "savings" multiplier of 0.9 on the grid part
hourCostDiscounted(gridImportKw, dieselToLoadKw, tariff, dieselPrice) ==
    RAdd(RMul(RMul(gridImportKw, tariff), <<9, 10>>), RMul(dieselToLoadKw, dieselPrice))

\* STRICT cost formula (no multipliers, no bonuses)
hourCost(gridImportKw, dieselToLoadKw, tariff, dieselPrice) ==
    RAdd(RMul(gridImportKw, tariff), RMul(dieselToLoadKw, dieselPrice))

hourCo2(gridImportKw, dieselToLoadKw, co2GridPerKwh, co2DieselPerKwh) ==
    RAdd(RMul(gridImportKw, co2GridPerKwh), RMul(dieselToLoadKw, co2DieselPerKwh))

socPctOf(battery) ==
    IF RLt(Zero, battery.capacityKwh)
    THEN RMul(RDiv(battery.socKwh, battery.capacityKwh), Hundred)
    ELSE Zero

\* The working state of one dispatchHour call: the flows record being filled
\* in, the locals remainingLoad and remainingSolar, and state.battery.
startHour(inputs, battery) ==
    [flows |->
        [hour |-> inputs.hour,
         solarGenKw |-> RMax(Zero, inputs.solarGenKw),
         loadKw |-> RMax(Zero, inputs.loadKw),
         solarToLoadKw |-> Zero,
         solarToBattKw |-> Zero,
         battToLoadKw |-> Zero,
         gridToLoadKw |-> Zero,
         gridToBattKw |-> Zero,
         dieselToLoadKw |-> Zero,
         gridImportKw |-> Zero,
         unmetLoadKw |-> Zero,
         socKwh |-> Zero,
         socPct |-> Zero,
         cost |-> Zero,
         co2Kg |-> Zero,
         tariff |-> inputs.tariff,
         isPeak |-> inputs.hour \in PEAK_HOURS],
     remainingLoad |-> RMax(Zero, inputs.loadKw),
     remainingSolar |-> RMax(Zero, inputs.solarGenKw),
     battery |-> battery]

\* the context object handed to the policy callbacks
contextOf(w, inputs) ==
    [hour |-> inputs.hour, isPeak |-> w.flows.isPeak, battery |-> w.battery, inputs |-> inputs]

\* 1) Solar -> Load
solarToLoadStep(w) ==
    [w EXCEPT !.flows.solarToLoadKw = RMin(w.remainingSolar, w.remainingLoad),
              !.remainingSolar = RSub(@, RMin(w.remainingSolar, w.remainingLoad)),
              !.remainingLoad = RSub(@, RMin(w.remainingSolar, w.remainingLoad))]

charged(w, c) ==
    [w EXCEPT !.flows.solarToBattKw = c.actualKw,
              !.remainingSolar = RSub(@, c.actualKw),
              !.battery = c.batt]

\* 2) Excess Solar -> Battery charge
solarToBattStep(w) ==
    IF RLt(Zero, w.remainingSolar)
    THEN charged(w, batteryCharge(w.battery, w.remainingSolar))
    ELSE w

discharged(w, d) ==
    [w EXCEPT !.flows.battToLoadKw = d.actualKw,
              !.remainingLoad = RSub(@, d.actualKw),
              !.battery = d.batt]

\* 3) Battery -> Load (policy can restrict discharge)
dischargeStep(w, inputs, policy) ==
    IF RLt(Zero, w.remainingLoad) /\ allowDischarge(policy, contextOf(w, inputs))
    THEN discharged(w, batteryDischargeToLoad(w.battery, w.remainingLoad))
    ELSE w

gridDrawn(w, g) ==
    [w EXCEPT !.flows.gridToLoadKw = g.gridToLoadKw, !.remainingLoad = g.remainingLoad]

\* 4), 4b) Grid -> Load
gridToLoadStep(w, inputs) ==
    gridDrawn(w, gridToLoadStage(w.remainingLoad, inputs.gridLimitKw, w.flows.isPeak))

\* dieselStep with no generator: what the grid leaves over stays unmet
dieselStepNoGenerator(w) ==
    w

\* 5) Diesel -> Remaining
dieselStep(w) ==
    IF RLt(Zero, w.remainingLoad)
    THEN [w EXCEPT !.flows.dieselToLoadKw = w.remainingLoad, !.remainingLoad = Zero]
    ELSE w

gridCharged(w, c) ==
    [w EXCEPT !.flows.gridToBattKw = c.actualKw, !.battery = c.batt]

\* Optional grid charge
gridChargeStep(w, inputs, policy) ==
    gridCharged(w, gridChargeStage(w.battery, policy, contextOf(w, inputs),
                                   inputs.gridLimitKw, w.flows.gridToLoadKw))

billed(w, inputs, gridImportKw) ==
    [w EXCEPT !.flows.gridImportKw = gridImportKw,
              !.flows.unmetLoadKw = w.remainingLoad,
              !.flows.socKwh = w.battery.socKwh,
              !.flows.socPct = socPctOf(w.battery),
              !.flows.cost = hourCost(gridImportKw, w.flows.dieselToLoadKw,
                                      inputs.tariff, inputs.dieselPrice),
              !.flows.co2Kg = hourCo2(gridImportKw, w.flows.dieselToLoadKw,
                                      inputs.co2GridPerKwh, inputs.co2DieselPerKwh)]

\* grid import, unmet load, SOC, cost and CO2 of the hour
finishHour(w, inputs) ==
    billed(w, inputs, RAdd(w.flows.gridToLoadKw, w.flows.gridToBattKw))

\* Returns the working state at the end of the call: .flows is the hour
\* record dispatchHour returns, .battery the battery as the call leaves it.
dispatchHour(inputs, battery, policy) ==
    finishHour(
        gridChargeStep(
            dieselStep(
                gridToLoadStep(
                    dischargeStep(
                        solarToBattStep(solarToLoadStep(startHour(inputs, battery))),
                        inputs, policy),
                    inputs)),
            inputs, policy),
        inputs)

\* ------------------------------------------------------------------------
\* Inputs the model draws
\* ------------------------------------------------------------------------
MaxCalls == 3      \* simulateDay calls in one behaviour of SpecCalls
MaxSolarKw == 8    \* the solar level of a sunny stretch
MaxLoadKw == 7     \* the heaviest load level (above the 5 kW grid limit)

\* A day is three stretches of constant solar and load: night (23:00-07:59),
\* day (08:00-16:59) and the evening peak (17:00-22:59).
segmentOf(h) ==
    IF h \in PEAK_HOURS THEN "peak"
    ELSE IF h >= 8 /\ h < FirstPeakHour THEN "day"
    ELSE "night"
Segments == {"night", "day", "peak"}

sun == Q(MaxSolarKw)
SolarPatterns ==
    {[night |-> Zero, day |-> Zero, peak |-> Zero],
     [night |-> Zero, day |-> sun, peak |-> Zero],
     [night |-> Zero, day |-> sun, peak |-> sun],
     [night |-> sun, day |-> sun, peak |-> sun]}
LoadLevels == {Q(0), Q(2), Q(MaxLoadKw)}
LoadPatterns == [Segments -> LoadLevels]
\* trace[segment] = <<solar kW, load kW>>
Traces ==
    {[g \in Segments |-> <<sp[g], lp[g]>>] : sp \in SolarPatterns, lp \in LoadPatterns}

\* CONFIG.DIESEL_PRICE, CONFIG.CO2_PER_GRID_KWH, CONFIG.CO2_PER_DIESEL_KWH
DIESEL_PRICE == Q(25)
CO2_PER_GRID_KWH == <<1, 2>>
CO2_PER_DIESEL_KWH == <<4, 5>>
chargeRateFraction == <<1, 4>>   \* simState.battCap * 0.25 (C/4)

\* The config record prepareDaySimulationsIfNeeded builds.
configFor(battCap, soc, baseGridPrice, peakFactor, gridLimitKw, minSocPercent, rte) ==
    [baseGridPrice |-> baseGridPrice,
     peakFactor |-> peakFactor,
     gridLimitKw |-> gridLimitKw,
     dieselPrice |-> DIESEL_PRICE,
     co2GridPerKwh |-> CO2_PER_GRID_KWH,
     co2DieselPerKwh |-> CO2_PER_DIESEL_KWH,
     batteryCapacityKwh |-> battCap,
     initialSocPct |-> soc,
     minSocPct |-> minSocPercent,
     roundTripEfficiency |-> rte,
     maxChargeKw |-> RMul(battCap, chargeRateFraction),
     maxDischargeKw |-> RMul(battCap, chargeRateFraction)]

InitialSocPcts == {Q(10), Q(20), Q(50)}
PeakFactors == {Q(1), <<3, 2>>}
gridCost == Q(10)                \* simState.gridCost
minSocPct == Q(20)               \* minSocPct: 20
gridLimit == Q(5)                \* gridLimitKw: 5
efficiency == <<1, 4>>           \* a round-trip efficiency with a rational root

\* A 10 kWh battery at each initial SOC and price shape under the 5 kW grid
\* limit, and the two degenerate plants: no battery, and no grid.
Configs ==
    {configFor(Q(10), s, gridCost, f, gridLimit, minSocPct, efficiency) :
        s \in InitialSocPcts, f \in PeakFactors}
    \cup {configFor(Zero, Q(50), gridCost, f, gridLimit, minSocPct, efficiency) :
        f \in PeakFactors}
    \cup {configFor(Q(10), Q(50), gridCost, f, Zero, minSocPct, efficiency) :
        f \in PeakFactors}

\* buildDayInputsForCurrentConfig: 24 hour inputs from the data source's
\* solar and load samples and the tariff of the hour.
buildDayInputs(trace, baseGridPrice, peakFactor) ==
    [h \in Hours |->
        [hour |-> h,
         solarGenKw |-> RMax(Zero, trace[segmentOf(h)][1]),
         loadKw |-> RMax(Zero, trace[segmentOf(h)][2]),
         tariff |-> getGridTariffForHour(h, baseGridPrice, peakFactor),
         isPeak |-> h \in PEAK_HOURS]]

\* ------------------------------------------------------------------------
\* State
\* ------------------------------------------------------------------------
VARIABLES
    config,      \* the config argument of simulateDay
    dayInputs,   \* the dayInputs argument: Hours -> hour input
    plan,        \* the policies simulateDay is called with, in order
    pc,          \* "ready" | "loop" | "done"
    policy,      \* the policy of the call in progress
    battery,     \* state.battery of the call in progress
    i,           \* loop index of the call in progress
    hourly,      \* hourly of the call in progress
    totals,      \* totals of the call in progress
    results,     \* what the completed calls returned, in order
    calls,       \* the battery calls a direct caller of the battery functions
                 \* has made, in order (empty while simulateDay drives the battery)
    simState,    \* the page's simState, with the current day as simState.day
    clicks       \* user events handled so far

vars ==
    <<config, dayInputs, plan, pc, policy, battery, i, hourly, totals, results, calls,
      simState, clicks>>

zeroTotals ==
    [cost |-> Zero, gridKwh |-> Zero, dieselKwh |-> Zero, solarToLoadKwh |-> Zero,
     solarToBattKwh |-> Zero, battToLoadKwh |-> Zero, co2Kg |-> Zero]

\* No call has created a battery yet.
noBattery ==
    [capacityKwh |-> Zero, socKwh |-> Zero, minSocKwh |-> Zero, etaC |-> Q(1),
     etaD |-> Q(1), maxChargeKw |-> Zero, maxDischargeKw |-> Zero]

\* CONFIG.PEAK_FACTOR
PEAK_FACTOR == <<3, 2>>

\* createNewDay: the live totals and hourly list of a day, its config
\* snapshot and its prepared simulations (<<>> is null, <<x>> is x)
createNewDay ==
    [cost |-> Zero, gridKwh |-> Zero, dieselKwh |-> Zero, hourly |-> <<>>,
     sim |-> <<>>, config |-> <<>>]

\* simState as the script creates it: not playing, no timer, hour 0, a
\* 10 kWh battery at 50 %, baseline mode, day 1
initialSimState ==
    [currentDay |-> 1,
     isPlaying |-> FALSE,
     timers |-> 0,
     hour |-> 0,
     speed |-> 1000,
     solarCap |-> sun,
     battCap |-> Q(10),
     gridCost |-> gridCost,
     isSmart |-> FALSE,
     weather |-> "sunny",
     soc |-> Q(50),
     day |-> createNewDay]

InitWith(cfgs, traces, plans) ==
    /\ config \in cfgs
    /\ \E t \in traces : dayInputs = buildDayInputs(t, config.baseGridPrice, config.peakFactor)
    /\ plan \in plans
    /\ pc = "ready"
    /\ policy = createBaselinePolicy
    /\ battery = noBattery
    /\ i = 0
    /\ hourly = <<>>
    /\ totals = zeroTotals
    /\ results = <<>>
    /\ calls = <<>>
    /\ simState = initialSimState
    /\ clicks = 0

\* prepareDaySimulationsIfNeeded: baseline first, then smart, on one dayInputs
Init == InitWith(Configs, Traces, {<<"baseline", "smart">>})

policyNamed(name) ==
    IF name = "baseline" THEN createBaselinePolicy
    ELSE createSmartPolicy(dayInputs, config)

\* simulateDay, up to its loop: a fresh battery, empty hourly, zero totals
batteryParams(cfg) ==
    [capacityKwh |-> cfg.batteryCapacityKwh,
     initialSocPct |-> cfg.initialSocPct,
     minSocPct |-> cfg.minSocPct,
     roundTripEfficiency |-> cfg.roundTripEfficiency,
     maxChargeKw |-> cfg.maxChargeKw,
     maxDischargeKw |-> cfg.maxDischargeKw]

\* StartCall that re-samples the load (one more kW of appliances) for every
\* call after the first
StartCallResampled ==
    /\ pc = "ready"
    /\ Len(results) < Len(plan)
    /\ policy' = policyNamed(plan[Len(results) + 1])
    /\ battery' = createBatteryModel(batteryParams(config))
    /\ hourly' = <<>>
    /\ totals' = zeroTotals
    /\ i' = 0
    /\ pc' = "loop"
    /\ dayInputs' = IF results = <<>> THEN dayInputs
                    ELSE [h \in Hours |-> [dayInputs[h] EXCEPT !.loadKw = RAdd(@, Q(1))]]
    /\ UNCHANGED <<config, plan, results, calls, simState, clicks>>

\* StartCall that keeps the battery of the previous call
StartCallSharedBattery ==
    /\ pc = "ready"
    /\ Len(results) < Len(plan)
    /\ policy' = policyNamed(plan[Len(results) + 1])
    /\ battery' = IF results = <<>> THEN createBatteryModel(batteryParams(config))
                  ELSE battery
    /\ hourly' = <<>>
    /\ totals' = zeroTotals
    /\ i' = 0
    /\ pc' = "loop"
    /\ UNCHANGED <<config, dayInputs, plan, results, calls, simState, clicks>>

StartCall ==
    /\ pc = "ready"
    /\ Len(results) < Len(plan)
    /\ policy' = policyNamed(plan[Len(results) + 1])
    /\ battery' = createBatteryModel(batteryParams(config))
    /\ hourly' = <<>>
    /\ totals' = zeroTotals
    /\ i' = 0
    /\ pc' = "loop"
    /\ UNCHANGED <<config, dayInputs, plan, results, calls, simState, clicks>>

\* The object literal simulateDay passes to dispatchHour for one hour.
hourInputs(inp, cfg) ==
    [hour |-> inp.hour,
     solarGenKw |-> inp.solarGenKw,
     loadKw |-> inp.loadKw,
     tariff |-> inp.tariff,
     gridLimitKw |-> cfg.gridLimitKw,
     dieselPrice |-> cfg.dieselPrice,
     co2GridPerKwh |-> cfg.co2GridPerKwh,
     co2DieselPerKwh |-> cfg.co2DieselPerKwh]

\* addTotals whose gridKwh leaves out the power charged into the battery
addTotalsGridToLoad(t, flows) ==
    [cost |-> RAdd(t.cost, flows.cost),
     gridKwh |-> RAdd(t.gridKwh, flows.gridToLoadKw),
     dieselKwh |-> RAdd(t.dieselKwh, flows.dieselToLoadKw),
     solarToLoadKwh |-> RAdd(t.solarToLoadKwh, flows.solarToLoadKw),
     solarToBattKwh |-> RAdd(t.solarToBattKwh, flows.solarToBattKw),
     battToLoadKwh |-> RAdd(t.battToLoadKwh, flows.battToLoadKw),
     co2Kg |-> RAdd(t.co2Kg, flows.co2Kg)]

\* addTotals that assigns the hour's cost instead of adding it
addTotalsCostAssigned(t, flows) ==
    [cost |-> flows.cost,
     gridKwh |-> RAdd(t.gridKwh, flows.gridImportKw),
     dieselKwh |-> RAdd(t.dieselKwh, flows.dieselToLoadKw),
     solarToLoadKwh |-> RAdd(t.solarToLoadKwh, flows.solarToLoadKw),
     solarToBattKwh |-> RAdd(t.solarToBattKwh, flows.solarToBattKw),
     battToLoadKwh |-> RAdd(t.battToLoadKwh, flows.battToLoadKw),
     co2Kg |-> RAdd(t.co2Kg, flows.co2Kg)]

addTotals(t, flows) ==
    [cost |-> RAdd(t.cost, flows.cost),
     gridKwh |-> RAdd(t.gridKwh, flows.gridImportKw),
     dieselKwh |-> RAdd(t.dieselKwh, flows.dieselToLoadKw),
     solarToLoadKwh |-> RAdd(t.solarToLoadKwh, flows.solarToLoadKw),
     solarToBattKwh |-> RAdd(t.solarToBattKwh, flows.solarToBattKw),
     battToLoadKwh |-> RAdd(t.battToLoadKwh, flows.battToLoadKw),
     co2Kg |-> RAdd(t.co2Kg, flows.co2Kg)]

\* recordHour that hands the next hour a fresh battery instead of the one
\* dispatchHour left
recordHourFreshBattery(r) ==
    /\ battery' = createBatteryModel(batteryParams(config))
    /\ hourly' = Append(hourly, r.flows)
    /\ totals' = addTotals(totals, r.flows)

\* what one loop iteration does with the result r of dispatchHour
recordHour(r) ==
    /\ battery' = r.battery
    /\ hourly' = Append(hourly, r.flows)
    /\ totals' = addTotals(totals, r.flows)

\* One iteration of simulateDay's loop
HourStep ==
    /\ pc = "loop"
    /\ i < HoursPerDay
    /\ recordHour(dispatchHour(hourInputs(dayInputs[i], config), battery, policy))
    /\ i' = i + 1
    /\ UNCHANGED <<config, dayInputs, plan, pc, policy, results, calls, simState, clicks>>

\* simulateDay returns { hourly, totals }
ReturnCall ==
    /\ pc = "loop"
    /\ i = HoursPerDay
    /\ results' = Append(results, [policy |-> policy.name, hourly |-> hourly, totals |-> totals])
    /\ pc' = IF Len(results) + 1 < Len(plan) THEN "ready" ELSE "done"
    /\ UNCHANGED <<config, dayInputs, plan, policy, battery, i, hourly, totals, calls, simState, clicks>>

Next == StartCall \/ HourStep \/ ReturnCall

Spec == Init /\ [][Next]_vars

\* ------------------------------------------------------------------------
\* simulateDay called MaxCalls times in a row, with any policies, on one
\* dayInputs and config
\* ------------------------------------------------------------------------
RECURSIVE PlansOfLength(_)
PlansOfLength(n) ==
    IF n = 0 THEN {<<>>}
    ELSE {Append(q, name) : q \in PlansOfLength(n - 1), name \in {"baseline", "smart"}}

CallConfigs ==
    {configFor(Q(10), Q(50), gridCost, f, gridLimit, minSocPct, efficiency) : f \in PeakFactors}
CallTraces ==
    {[g \in Segments |-> <<sp[g], lp[g]>>] :
        sp \in {[night |-> Zero, day |-> sun, peak |-> Zero]},
        lp \in [Segments -> {Q(2), Q(MaxLoadKw)}]}

InitCalls == InitWith(CallConfigs, CallTraces, PlansOfLength(MaxCalls))

SpecCalls == InitCalls /\ [][Next]_vars

\* ------------------------------------------------------------------------
\* simulateDay called directly with configurations and inputs that break
\* the configuration invariants
\* ------------------------------------------------------------------------
\* dayInputs handed to simulateDay as they are (not through
\* buildDayInputsForCurrentConfig, which floors solar and load at 0)
rawDayInputs(trace, baseGridPrice, peakFactor) ==
    [h \in Hours |->
        [hour |-> h,
         solarGenKw |-> trace[segmentOf(h)][1],
         loadKw |-> trace[segmentOf(h)][2],
         tariff |-> getGridTariffForHour(h, baseGridPrice, peakFactor),
         isPeak |-> h \in PEAK_HOURS]]

okConfig == configFor(Q(10), Q(50), gridCost, <<3, 2>>, gridLimit, minSocPct, efficiency)
AnyConfigs ==
    {okConfig,
     \* capacity <= 0
     configFor(Zero, Q(50), gridCost, <<3, 2>>, gridLimit, minSocPct, efficiency),
     configFor(Q(-10), Q(50), gridCost, <<3, 2>>, gridLimit, minSocPct, efficiency),
     \* minimum SOC above the capacity
     configFor(Q(10), Q(50), gridCost, <<3, 2>>, gridLimit, Q(150), efficiency),
     \* round-trip efficiency outside (0, 1]
     configFor(Q(10), Q(50), gridCost, Q(1), gridLimit, minSocPct, Zero)}
AnyTraces ==
    [Segments -> {<<Zero, Q(2)>>, <<sun, Q(-2)>>, <<Q(-MaxSolarKw), Q(2)>>, <<Zero, Q(MaxLoadKw)>>}]

InitAny ==
    /\ config \in AnyConfigs
    /\ \E t \in AnyTraces : dayInputs = rawDayInputs(t, config.baseGridPrice, config.peakFactor)
    /\ plan = <<"baseline", "smart">>
    /\ pc = "ready"
    /\ policy = createBaselinePolicy
    /\ battery = noBattery
    /\ i = 0
    /\ hourly = <<>>
    /\ totals = zeroTotals
    /\ results = <<>>
    /\ calls = <<>>
    /\ simState = initialSimState
    /\ clicks = 0

SpecAny == InitAny /\ [][Next]_vars

\* ------------------------------------------------------------------------
\* batteryCharge and batteryDischargeToLoad called directly, up to
\* MaxBatteryCalls times in any order, on a battery createBatteryModel made
\* ------------------------------------------------------------------------
MaxBatteryCalls == 2   \* battery calls in one behaviour of SpecBattery
MaxRequestKw == 3      \* the largest power asked of the battery (above the C/4 rate)

BatteryCapacities == {Zero, Q(10)}
BatterySocPcts == {Q(10), Q(20), Q(50), Q(100)}
Efficiencies == {efficiency, <<81, 100>>, Zero}
BatteryConfigs ==
    {configFor(c, s, gridCost, <<3, 2>>, gridLimit, minSocPct, e) :
        c \in BatteryCapacities, s \in BatterySocPcts, e \in Efficiencies}
\* the chargeKw / demandKw arguments, in kW
Requests ==
    {Q(-1), <<1, 50>>, <<1, 2>>, <<81, 50>>, <<5, 2>>} \cup {Q(k) : k \in 0..MaxRequestKw}

InitBattery ==
    /\ config \in BatteryConfigs
    /\ dayInputs = buildDayInputs([g \in Segments |-> <<Zero, Zero>>],
                                  config.baseGridPrice, config.peakFactor)
    /\ plan = <<>>
    /\ pc = "done"
    /\ policy = createBaselinePolicy
    /\ battery = createBatteryModel(batteryParams(config))
    /\ i = 0
    /\ hourly = <<>>
    /\ totals = zeroTotals
    /\ results = <<>>
    /\ calls = <<>>
    /\ simState = initialSimState
    /\ clicks = 0

\* the caller keeps what it asked, what came back, and the battery before
\* and after the call
called(fn, requestedKw, r) ==
    /\ battery' = r.batt
    /\ calls' = Append(calls, [fn |-> fn, requestedKw |-> requestedKw,
                               actualKw |-> r.actualKw, before |-> battery, after |-> r.batt])

ChargeCall ==
    /\ Len(calls) < MaxBatteryCalls
    /\ \E chargeKw \in Requests : called("batteryCharge", chargeKw, batteryCharge(battery, chargeKw))
    /\ UNCHANGED <<config, dayInputs, plan, pc, policy, i, hourly, totals, results,
                   simState, clicks>>

DischargeCall ==
    /\ Len(calls) < MaxBatteryCalls
    /\ \E demandKw \in Requests :
          called("batteryDischargeToLoad", demandKw, batteryDischargeToLoad(battery, demandKw))
    /\ UNCHANGED <<config, dayInputs, plan, pc, policy, i, hourly, totals, results,
                   simState, clicks>>

NextBattery == ChargeCall \/ DischargeCall

SpecBattery == InitBattery /\ [][NextBattery]_vars

\* ------------------------------------------------------------------------
\* The live run: the page's buttons and the stepping timer, on simState
\* ------------------------------------------------------------------------
MaxClicks == 3     \* user events in one behaviour of SpecLive
MaxDays == 2       \* simState.currentDay never goes beyond this day

\* simulateDay as one call.  st is what the loop carries from hour to hour:
\* state.battery, hourly and totals.
afterHour(st, r) ==
    [battery |-> r.battery,
     hourly |-> Append(st.hourly, r.flows),
     totals |-> addTotals(st.totals, r.flows)]

\* The loop over the hours a .. b-1, run as its first half and then its
\* second half (r and mid are finished values before the loop goes on).
RECURSIVE simulateHours(_, _, _, _, _, _)
simulateHours(a, b, inputs, cfg, pol, st) ==
    IF b <= a THEN st
    ELSE IF b = a + 1
    THEN CHOOSE out \in
             {afterHour(st, r) :
                 r \in {dispatchHour(hourInputs(inputs[a], cfg), st.battery, pol)}} : TRUE
    ELSE CHOOSE out \in
             {simulateHours((a + b) \div 2, b, inputs, cfg, pol, mid) :
                 mid \in {simulateHours(a, (a + b) \div 2, inputs, cfg, pol, st)}} : TRUE

returned(st) == [hourly |-> st.hourly, totals |-> st.totals]

simulateDay(inputs, cfg, pol) ==
    returned(simulateHours(0, HoursPerDay, inputs, cfg, pol,
                           [battery |-> createBatteryModel(batteryParams(cfg)),
                            hourly |-> <<>>,
                            totals |-> zeroTotals]))

\* The solar and load samples calculateSolarOutput and calculateLoad give for
\* the installed solar capacity: solar by day only, the evening load above
\* the grid limit.
SolarCaps == {Zero, sun}
\* CONFIG.WEATHER_IMPACT, the factor calculateSolarOutput applies
WEATHER_IMPACT == [sunny |-> Q(1), cloudy |-> <<2, 5>>]
liveTrace(s) ==
    [night |-> <<Zero, Q(2)>>,
     day |-> <<RMul(s.solarCap, WEATHER_IMPACT[s.weather]), Q(2)>>,
     peak |-> <<Zero, Q(MaxLoadKw)>>]

\* the config object prepareDaySimulationsIfNeeded builds from simState
liveConfig(s) ==
    configFor(s.battCap, s.soc, s.gridCost, PEAK_FACTOR, gridLimit, minSocPct, efficiency)

daySimOf(inputs, cfg) ==
    [inputs |-> inputs,
     baseline |-> simulateDay(inputs, cfg, createBaselinePolicy),
     smart |-> simulateDay(inputs, cfg, createSmartPolicy(inputs, cfg))]

\* prepareDaySimulationsIfNeeded that builds day.sim on every call
prepareDaySimulationsAlways(s) ==
    [s EXCEPT !.day.sim =
        <<daySimOf(buildDayInputs(liveTrace(s), s.gridCost, PEAK_FACTOR), liveConfig(s))>>]

\* Builds day.sim unless the day already has one.
prepareDaySimulationsIfNeeded(s) ==
    IF s.day.sim # <<>> THEN s
    ELSE [s EXCEPT !.day.sim =
            <<daySimOf(buildDayInputs(liveTrace(s), s.gridCost, PEAK_FACTOR), liveConfig(s))>>]

\* the entry runSimulationStep pushes on day.hourly
liveEntry(hour, live, baselineH, smartH) ==
    [hour |-> hour,
     solar |-> live.solarGenKw,
     load |-> live.loadKw,
     grid |-> live.gridImportKw,
     diesel |-> live.dieselToLoadKw,
     battery |-> RSub(live.battToLoadKw, RAdd(live.solarToBattKw, live.gridToBattKw)),
     soc |-> clamp(live.socPct, Zero, Hundred),
     cost |-> live.cost,
     baselineCost |-> baselineH.cost,
     smartCost |-> smartH.cost]

stepWith(s, live, baselineH, smartH) ==
    [s EXCEPT !.day.cost = RAdd(@, live.cost),
              !.day.gridKwh = RAdd(@, live.gridImportKw),
              !.day.dieselKwh = RAdd(@, live.dieselToLoadKw),
              !.soc = clamp(live.socPct, Zero, Hundred),
              !.day.hourly = Append(@, liveEntry(s.hour, live, baselineH, smartH))]

\* stepPrepared that always shows the baseline trace, whatever the mode
stepPreparedBaselineOnly(s) ==
    stepWith(s,
             s.day.sim[1].baseline.hourly[s.hour + 1],
             s.day.sim[1].baseline.hourly[s.hour + 1],
             s.day.sim[1].smart.hourly[s.hour + 1])

\* runSimulationStep once day.sim is there: the live trace is the smart or
\* the baseline one, by simState.isSmart
stepPrepared(s) ==
    stepWith(s,
             IF s.isSmart THEN s.day.sim[1].smart.hourly[s.hour + 1]
             ELSE s.day.sim[1].baseline.hourly[s.hour + 1],
             s.day.sim[1].baseline.hourly[s.hour + 1],
             s.day.sim[1].smart.hourly[s.hour + 1])

runSimulationStep(s) == stepPrepared(prepareDaySimulationsIfNeeded(s))

stopSimulation(s) == [s EXCEPT !.isPlaying = FALSE, !.timers = 0]

\* the SOC the data set gives for hour 0 of the day, when real data is used
RealDataSocPcts == {Q(20), Q(50)}

\* startSimulation at hour 0: snapshot the configuration, drop day.sim and
\* prepare the day again
startAtHourZero(s) ==
    prepareDaySimulationsIfNeeded(
        [s EXCEPT !.day.config = <<[solarCap |-> s.solarCap, battCap |-> s.battCap,
                                    isSmart |-> s.isSmart, weather |-> s.weather,
                                    gridCost |-> s.gridCost]>>,
                  !.day.sim = <<>>])

LiveInit ==
    /\ config = okConfig
    /\ dayInputs = buildDayInputs([g \in Segments |-> <<Zero, Zero>>],
                                  config.baseGridPrice, config.peakFactor)
    /\ plan = <<>>
    /\ pc = "done"
    /\ policy = createBaselinePolicy
    /\ battery = noBattery
    /\ i = 0
    /\ hourly = <<>>
    /\ totals = zeroTotals
    /\ results = <<>>
    /\ calls = <<>>
    /\ simState = initialSimState
    /\ clicks = 0

engine == <<config, dayInputs, plan, pc, policy, battery, i, hourly, totals, results, calls>>

\* click on the start button while not playing
StartSimulation ==
    /\ clicks < MaxClicks
    /\ ~simState.isPlaying
    /\ \E soc \in {simState.soc} \cup RealDataSocPcts :
          simState' =
              IF simState.hour = 0
              THEN startAtHourZero(
                       [simState EXCEPT !.isPlaying = TRUE, !.timers = @ + 1, !.soc = soc])
              ELSE [simState EXCEPT !.isPlaying = TRUE, !.timers = @ + 1]
    /\ clicks' = clicks + 1
    /\ UNCHANGED engine

\* click on the start button while playing (it reads PAUSE)
PauseSimulation ==
    /\ clicks < MaxClicks
    /\ simState.isPlaying
    /\ simState' = stopSimulation(simState)
    /\ clicks' = clicks + 1
    /\ UNCHANGED engine

\* the setInterval callback
Tick ==
    /\ simState.timers > 0
    /\ simState' =
          IF simState.hour >= HoursPerDay THEN stopSimulation(simState)
          ELSE [runSimulationStep(simState) EXCEPT !.hour = @ + 1]
    /\ UNCHANGED <<engine, clicks>>

\* the strategy switch
ToggleStrategy ==
    /\ clicks < MaxClicks
    /\ simState' = [simState EXCEPT !.isSmart = ~@]
    /\ clicks' = clicks + 1
    /\ UNCHANGED engine

\* the solar capacity slider
SetSolarCap ==
    /\ clicks < MaxClicks
    /\ \E cap \in SolarCaps \ {simState.solarCap} :
          simState' = [simState EXCEPT !.solarCap = cap]
    /\ clicks' = clicks + 1
    /\ UNCHANGED engine

\* a weather button
SetWeather ==
    /\ clicks < MaxClicks
    /\ \E w \in DOMAIN WEATHER_IMPACT \ {simState.weather} :
          simState' = [simState EXCEPT !.weather = w]
    /\ clicks' = clicks + 1
    /\ UNCHANGED engine

\* the speed slider: a running timer is cleared and replaced by one of the
\* new period
Speeds == {1000, 500}
clearInterval(s) == [s EXCEPT !.timers = IF s.timers > 0 THEN s.timers - 1 ELSE 0]
setInterval(s) == [s EXCEPT !.timers = s.timers + 1]
SetSpeed ==
    /\ clicks < MaxClicks
    /\ \E period \in Speeds \ {simState.speed} :
          simState' = IF simState.isPlaying
                      THEN setInterval(clearInterval([simState EXCEPT !.speed = period]))
                      ELSE [simState EXCEPT !.speed = period]
    /\ clicks' = clicks + 1
    /\ UNCHANGED engine

\* the battery capacity slider
BattCaps == {Zero, Q(10)}
SetBattCap ==
    /\ clicks < MaxClicks
    /\ \E cap \in BattCaps \ {simState.battCap} :
          simState' = [simState EXCEPT !.battCap = cap]
    /\ clicks' = clicks + 1
    /\ UNCHANGED engine

\* the grid price slider
GridCosts == {Q(1), gridCost}
SetGridCost ==
    /\ clicks < MaxClicks
    /\ \E price \in GridCosts \ {simState.gridCost} :
          simState' = [simState EXCEPT !.gridCost = price]
    /\ clicks' = clicks + 1
    /\ UNCHANGED engine

ResetSimulation ==
    /\ clicks < MaxClicks
    /\ simState' = [stopSimulation(simState) EXCEPT !.hour = 0, !.soc = Q(50),
                                                    !.day = createNewDay]
    /\ clicks' = clicks + 1
    /\ UNCHANGED engine

StartNewDay ==
    /\ clicks < MaxClicks
    /\ simState.currentDay < MaxDays
    /\ simState' = [simState EXCEPT !.currentDay = @ + 1, !.day = createNewDay,
                                    !.hour = 0, !.soc = Q(50)]
    /\ clicks' = clicks + 1
    /\ UNCHANGED engine

LiveNext ==
    \/ StartSimulation
    \/ PauseSimulation
    \/ Tick
    \/ ToggleStrategy
    \/ SetSolarCap
    \/ SetWeather
    \/ SetSpeed
    \/ SetBattCap
    \/ SetGridCost
    \/ ResetSimulation
    \/ StartNewDay

SpecLive == LiveInit /\ [][LiveNext]_vars

\* ------------------------------------------------------------------------
\* Properties
\* ------------------------------------------------------------------------
\* The hour records the call in progress has produced so far.
Records == {hourly[k] : k \in 1..Len(hourly)}
\* The call in progress has run all 24 hours (its totals are final).
CallComplete == pc = "loop" /\ i = HoursPerDay

\* C1: every hour record has minSocKwh <= socKwh <= capacityKwh, whatever the
\* configured initial SOC (also when it lies below the minimum-SOC floor).
C1_SocWithinBounds ==
    \A rec \in Records :
        /\ RLe(battery.minSocKwh, rec.socKwh)
        /\ RLe(rec.socKwh, battery.capacityKwh)

\* C2: in every hour record the power charged into the battery
\* (solarToBattKw + gridToBattKw) is at most maxChargeKw and the power
\* discharged (battToLoadKw) is at most maxDischargeKw.
C2_RateLimits ==
    \A rec \in Records :
        /\ RLe(RAdd(rec.solarToBattKw, rec.gridToBattKw), config.maxChargeKw)
        /\ RLe(rec.battToLoadKw, config.maxDischargeKw)

\* C3: every hour record has gridImportKw = gridToLoadKw + gridToBattKw,
\* cost = gridImportKw * tariff + dieselToLoadKw * dieselPrice and
\* co2Kg = gridImportKw * co2GridPerKwh + dieselToLoadKw * co2DieselPerKwh,
\* under both policies.
C3_CostFormula ==
    \A rec \in Records :
        /\ rec.gridImportKw = RAdd(rec.gridToLoadKw, rec.gridToBattKw)
        /\ rec.cost = RAdd(RMul(rec.gridImportKw, dayInputs[rec.hour].tariff),
                           RMul(rec.dieselToLoadKw, config.dieselPrice))
        /\ rec.co2Kg = RAdd(RMul(rec.gridImportKw, config.co2GridPerKwh),
                            RMul(rec.dieselToLoadKw, config.co2DieselPerKwh))

\* C3 witness: the smart call has ended on a day whose baseline run burned
\* diesel and whose smart run charged the battery from the grid.
C3_Witness ==
    /\ CallComplete
    /\ policy.name = "smart"
    /\ Len(results) = 1
    /\ \E rec \in Records : RLt(Zero, rec.gridToBattKw) /\ RLt(Zero, rec.cost)
    /\ \E k \in 1..HoursPerDay : RLt(Zero, results[1].hourly[k].dieselToLoadKw)

\* ---- C4 ----------------------------------------------------------------
ZeroDeficitDay ==
    /\ config.initialSocPct = Q(50)
    /\ \A h \in Hours : RLe(dayInputs[h].loadKw, dayInputs[h].solarGenKw)

initialSocKwh == createBatteryModel(batteryParams(config)).socKwh

SocNeverDecreases ==
    /\ hourly # <<>> => RLe(initialSocKwh, hourly[1].socKwh)
    /\ \A k \in 1..(Len(hourly) - 1) : RLe(hourly[k].socKwh, hourly[k + 1].socKwh)

RECURSIVE SumOver(_, _)
\* sum of f[h] over the hours h in S
SumOver(f, S) ==
    IF S = {} THEN Zero
    ELSE LET h == CHOOSE x \in S : TRUE IN RAdd(f[h], SumOver(f, S \ {h}))

\* C4 as stated: on a zero-deficit day (solar >= load in all 24 hours,
\* battery starting at 50%) simulateDay yields gridKwh = 0, dieselKwh = 0 and
\* cost = 0, and the hourly SOC never decreases.
C4_ZeroDeficitAsStated ==
    ZeroDeficitDay =>
        /\ SocNeverDecreases
        /\ CallComplete =>
              /\ totals.gridKwh = Zero
              /\ totals.dieselKwh = Zero
              /\ totals.cost = Zero

\* C4 amended: on a zero-deficit day dieselKwh = 0, the battery is never
\* charged from the grid, the only grid import is the 0.5 kW tie-in draw of
\* each peak hour (gridKwh = 0.5 * 6 = 3, cost = the sum over the peak hours
\* of 0.5 * tariff), and the hourly SOC never decreases.
C4_ZeroDeficit ==
    ZeroDeficitDay =>
        /\ SocNeverDecreases
        /\ \A rec \in Records :
              /\ rec.gridToBattKw = Zero
              /\ rec.gridToLoadKw = IF rec.hour \in PEAK_HOURS THEN minGridDraw ELSE Zero
        /\ CallComplete =>
              /\ totals.gridKwh = RMul(minGridDraw, Q(Cardinality(PEAK_HOURS)))
              /\ totals.dieselKwh = Zero
              /\ totals.cost =
                    SumOver([h \in Hours |-> RMul(minGridDraw, dayInputs[h].tariff)], PEAK_HOURS)

\* C4 witness: a zero-deficit day has been simulated to its end and the
\* battery took solar energy on the way.
C4_Witness ==
    /\ ZeroDeficitDay
    /\ CallComplete
    /\ RLt(Zero, totals.solarToBattKwh)
    /\ RLt(Zero, totals.solarToLoadKwh)

\* ---- C5 ----------------------------------------------------------------
ZeroSolarNoBatteryDay ==
    /\ config.batteryCapacityKwh = Zero
    /\ \A h \in Hours :
          /\ dayInputs[h].solarGenKw = Zero
          /\ RLe(dayInputs[h].loadKw, config.gridLimitKw)

tariffOf(h) ==
    IF h \in PEAK_HOURS THEN RMul(config.baseGridPrice, config.peakFactor)
    ELSE config.baseGridPrice

\* C5 as stated: with zero solar, zero battery capacity and a grid limit at
\* least the maximum load, cost = sum of loadKw[h] * tariff(h) and
\* dieselKwh = 0, for any non-negative load trace.
C5_CostLinearityAsStated ==
    (ZeroSolarNoBatteryDay /\ CallComplete) =>
        /\ totals.cost = SumOver([h \in Hours |-> RMul(dayInputs[h].loadKw, tariffOf(h))], Hours)
        /\ totals.dieselKwh = Zero

\* the load billed in hour h: in a peak hour at least the tie-in draw
billedKw(h) ==
    IF h \in PEAK_HOURS THEN RMax(dayInputs[h].loadKw, minGridDraw) ELSE dayInputs[h].loadKw

\* C5 amended: in that scenario dieselKwh = 0 and cost = the sum over the 24
\* hours of billed(h) * tariff(h), where billed(h) = loadKw[h] in an off-peak
\* hour and max(loadKw[h], 0.5) in a peak hour.
C5_CostLinearity ==
    (ZeroSolarNoBatteryDay /\ CallComplete) =>
        /\ totals.cost = SumOver([h \in Hours |-> RMul(billedKw(h), tariffOf(h))], Hours)
        /\ totals.dieselKwh = Zero

\* C5 witness: such a day has been simulated to its end with a peak-priced
\* evening and a load in some hours and none in others.
C5_Witness ==
    /\ ZeroSolarNoBatteryDay
    /\ CallComplete
    /\ config.peakFactor # Q(1)
    /\ \E h \in Hours : RLt(Zero, dayInputs[h].loadKw)
    /\ \E h \in PEAK_HOURS : dayInputs[h].loadKw = Zero
    /\ RLt(Zero, totals.cost)

\* ---- C6 ----------------------------------------------------------------
BlackoutDay ==
    /\ config.batteryCapacityKwh = Q(10)
    /\ config.initialSocPct = Q(20)
    /\ config.minSocPct = Q(20)
    /\ config.gridLimitKw = Q(5)
    /\ \A h \in Hours :
          /\ dayInputs[h].solarGenKw = Zero
          /\ dayInputs[h].loadKw = Q(2)
          /\ dayInputs[h].tariff = Q(10)

\* C6: on the blackout day (no solar, constant 2 kW load, 10 kWh battery at
\* its 20% floor, 5 kW grid limit, flat tariff 10) the SOC is at the floor in
\* every hour record and simulateDay yields gridKwh = 48, cost = 480 and
\* dieselKwh = 0.
C6_Blackout ==
    BlackoutDay =>
        /\ \A rec \in Records : rec.socKwh = battery.minSocKwh /\ rec.socKwh = Q(2)
        /\ CallComplete =>
              /\ totals.gridKwh = Q(48)
              /\ totals.cost = Q(480)
              /\ totals.dieselKwh = Zero

\* C6 witness: the blackout day has been simulated to its end under the
\* smart policy (after the baseline run).
C6_Witness ==
    /\ BlackoutDay
    /\ CallComplete
    /\ policy.name = "smart"
    /\ Len(hourly) = HoursPerDay

\* ---- C7 ----------------------------------------------------------------
\* C7: under the baseline policy gridToBattKw = 0 in every hour record.
C7_BaselineNeverGridCharges ==
    /\ policy.name = "baseline" => \A rec \in Records : rec.gridToBattKw = Zero
    /\ \A k \in 1..Len(results) :
          results[k].policy = "baseline" =>
              \A h \in 1..Len(results[k].hourly) : results[k].hourly[h].gridToBattKw = Zero

\* C7 witness: both runs of a day are done; the smart run charged from the
\* grid, the baseline run on the same inputs is recorded with all 24 hours.
C7_Witness ==
    /\ pc = "done"
    /\ results[1].policy = "baseline"
    /\ Len(results[1].hourly) = HoursPerDay
    /\ results[2].policy = "smart"
    /\ RLt(Zero, results[2].totals.gridKwh)
    /\ \E h \in 1..HoursPerDay : RLt(Zero, results[2].hourly[h].gridToBattKw)

\* ---- C8 ----------------------------------------------------------------
\* the hour record rec echoes the solar, load and tariff of its dayInputs entry
ReadsDayInputs(rec) ==
    /\ rec.solarGenKw = dayInputs[rec.hour].solarGenKw
    /\ rec.loadKw = dayInputs[rec.hour].loadKw
    /\ rec.tariff = dayInputs[rec.hour].tariff

SameInputsRead ==
    /\ \A rec \in Records : ReadsDayInputs(rec)
    /\ \A k \in 1..Len(results) :
          \A h \in 1..Len(results[k].hourly) : ReadsDayInputs(results[k].hourly[h])

\* C8: within one prepared day the baseline run and the smart run read the
\* same dayInputs (every hour record of either run carries the solarGenKw,
\* loadKw and tariff of its dayInputs entry), and no step of simulateDay,
\* dispatchHour or a policy callback changes dayInputs.
C8_Fairness == [](SameInputsRead) /\ [][dayInputs' = dayInputs]_vars

\* C8 witness: both runs of a day are done and returned different totals
\* from the one dayInputs.
C8_Witness ==
    /\ pc = "done"
    /\ results[1].policy = "baseline"
    /\ results[2].policy = "smart"
    /\ results[1].totals # results[2].totals
    /\ \A h \in 1..HoursPerDay :
          results[1].hourly[h].loadKw = results[2].hourly[h].loadKw

\* ---- C9 ----------------------------------------------------------------
\* C9: the result of simulateDay depends on its arguments only: any two
\* completed calls with the same policy (on the one dayInputs and config)
\* returned the same hourly trace and totals, whatever was called before.
C9_Deterministic ==
    \A j, k \in 1..Len(results) :
        results[j].policy = results[k].policy => results[j] = results[k]

\* C9 witness: smart, baseline, smart have been called in this order; the
\* smart run moved the battery and differs from the baseline run.
C9_Witness ==
    /\ Len(results) = 3
    /\ results[1].policy = "smart"
    /\ results[2].policy = "baseline"
    /\ results[3].policy = "smart"
    /\ results[1].hourly # results[2].hourly
    /\ results[1].hourly[HoursPerDay].socKwh # initialSocKwh

\* ---- C10 ---------------------------------------------------------------
InvalidConfiguration ==
    \/ RLe(config.batteryCapacityKwh, Zero)
    \/ RLe(config.roundTripEfficiency, Zero)
    \/ RLt(Q(1), config.roundTripEfficiency)
    \/ RLt(config.batteryCapacityKwh,
           RMul(RDiv(config.minSocPct, Hundred), config.batteryCapacityKwh))
    \/ \E h \in Hours : RLt(dayInputs[h].solarGenKw, Zero) \/ RLt(dayInputs[h].loadKw, Zero)

\* C10: a configuration that breaks an invariant (capacity <= 0, round-trip
\* efficiency outside (0, 1], minimum SOC above capacity, negative solar or
\* load) is rejected: no hour record and no simulation result is produced.
C10_InvalidRejected ==
    InvalidConfiguration => (hourly = <<>> /\ results = <<>>)

\* The direct battery calls made so far, by function.
ChargeCalls == {calls[k] : k \in {n \in 1..Len(calls) : calls[n].fn = "batteryCharge"}}
DischargeCalls ==
    {calls[k] : k \in {n \in 1..Len(calls) : calls[n].fn = "batteryDischargeToLoad"}}

\* C11: for a request >= 0 on a battery with socKwh <= capacityKwh,
\* batteryCharge returns actual with 0 <= actual <= min(requested,
\* maxChargeKw, (capacityKwh - socKwh) / etaC), raises socKwh by exactly
\* actual * etaC, and leaves socKwh <= capacityKwh.
C11_ChargeContract ==
    \A c \in ChargeCalls :
        (RLe(Zero, c.requestedKw) /\ RLe(c.before.socKwh, c.before.capacityKwh)) =>
            /\ RLe(Zero, c.actualKw)
            /\ RLe(c.actualKw, c.requestedKw)
            /\ RLe(c.actualKw, c.before.maxChargeKw)
            /\ RLe(c.actualKw,
                   RDiv(RSub(c.before.capacityKwh, c.before.socKwh), c.before.etaC))
            /\ c.after.socKwh = RAdd(c.before.socKwh, RMul(c.actualKw, c.before.etaC))
            /\ RLe(c.after.socKwh, c.after.capacityKwh)

\* a charge the capacity headroom cut short: less than asked and less than
\* the rate limit
C11_Witness ==
    \E c \in ChargeCalls :
        /\ RLt(Zero, c.actualKw)
        /\ RLt(c.actualKw, c.requestedKw)
        /\ RLt(c.actualKw, c.before.maxChargeKw)
        /\ c.after.socKwh = c.after.capacityKwh

\* C12: after any call of batteryDischargeToLoad socKwh >= minSocKwh; for a
\* request >= 0 the returned power is between 0 and min(requested,
\* maxDischargeKw, (socKwh - minSocKwh) * etaD), and socKwh went down by
\* exactly actual / etaD.
C12_DischargeContract ==
    \A d \in DischargeCalls :
        /\ RLe(d.after.minSocKwh, d.after.socKwh)
        /\ RLe(Zero, d.requestedKw) =>
              /\ RLe(Zero, d.actualKw)
              /\ RLe(d.actualKw, d.requestedKw)
              /\ RLe(d.actualKw, d.before.maxDischargeKw)
              /\ RLe(d.actualKw,
                     RMul(RSub(d.before.socKwh, d.before.minSocKwh), d.before.etaD))
              /\ d.after.socKwh = RSub(d.before.socKwh, RDiv(d.actualKw, d.before.etaD))

\* The caller charged X into a battery at its floor, X within the charge rate
\* and the capacity headroom, and then asked for at least all of the stored
\* energy back, X * eta being within the discharge rate.
RoundTrip ==
    /\ Len(calls) = 2
    /\ calls[1].fn = "batteryCharge"
    /\ calls[2].fn = "batteryDischargeToLoad"
    /\ calls[1].before.socKwh = calls[1].before.minSocKwh
    /\ RLe(Zero, calls[1].requestedKw)
    /\ RLe(calls[1].requestedKw, calls[1].before.maxChargeKw)
    /\ RLe(calls[1].requestedKw,
           RDiv(RSub(calls[1].before.capacityKwh, calls[1].before.socKwh),
                calls[1].before.etaC))
    /\ RLe(RMul(calls[1].requestedKw, RMul(battery.etaC, battery.etaD)),
           battery.maxDischargeKw)
    /\ RLe(RMul(calls[1].requestedKw, RMul(battery.etaC, battery.etaD)),
           calls[2].requestedKw)

\* C13: a round trip from the floor delivers X * eta to the load, with
\* eta = etaC * etaD, and returns the SOC to the floor.
C13_RoundTrip ==
    RoundTrip =>
        /\ calls[2].actualKw = RMul(calls[1].requestedKw, RMul(battery.etaC, battery.etaD))
        /\ battery.socKwh = battery.minSocKwh

C13_Witness ==
    /\ RoundTrip
    /\ RLt(Zero, calls[1].requestedKw)
    /\ calls[2].requestedKw = RMul(calls[1].requestedKw, RMul(battery.etaC, battery.etaD))
    /\ RLt(calls[2].actualKw, calls[1].requestedKw)

C15_GridLimitAsStated ==
    RLe(Zero, config.gridLimitKw) =>
        \A rec \in Records :
            RLe(RAdd(rec.gridToLoadKw, rec.gridToBattKw), config.gridLimitKw)

\* C15: in every hour record gridToLoadKw + gridToBattKw is at most
\* gridLimitKw, or at most the 0.5 kW tie-in draw in a peak hour when
\* gridLimitKw is below 0.5; in particular the grid limit holds in every
\* record when gridLimitKw >= 0.5.
C15_GridLimit ==
    RLe(Zero, config.gridLimitKw) =>
        \A rec \in Records :
            RLe(RAdd(rec.gridToLoadKw, rec.gridToBattKw),
                IF rec.isPeak THEN RMax(config.gridLimitKw, minGridDraw)
                ELSE config.gridLimitKw)

\* the grid limit is reached in an hour that feeds both the load and the
\* battery from the grid
C15_Witness ==
    \E rec \in Records :
        /\ RLt(Zero, rec.gridToLoadKw)
        /\ RLt(Zero, rec.gridToBattKw)
        /\ RAdd(rec.gridToLoadKw, rec.gridToBattKw) = config.gridLimitKw

\* C16: in every peak-hour record gridToLoadKw >= 0.5, under either policy,
\* even when solar and battery cover the load; in an off-peak hour whose load
\* solar and battery cover, gridToLoadKw = 0.
C16_TieInFloor ==
    \A rec \in Records :
        /\ rec.isPeak => RLe(minGridDraw, rec.gridToLoadKw)
        /\ (~rec.isPeak /\ RAdd(rec.solarToLoadKw, rec.battToLoadKw) = rec.loadKw) =>
              rec.gridToLoadKw = Zero

\* a peak hour that the battery covers still draws 0.5 kW, and an off-peak
\* hour that solar covers draws nothing
C16_Witness ==
    /\ \E rec \in Records :
          /\ rec.isPeak
          /\ RLt(Zero, rec.battToLoadKw)
          /\ RAdd(rec.solarToLoadKw, rec.battToLoadKw) = rec.loadKw
          /\ rec.gridToLoadKw = minGridDraw
    /\ \E rec \in Records :
          /\ ~rec.isPeak
          /\ RLt(Zero, rec.loadKw)
          /\ RAdd(rec.solarToLoadKw, rec.battToLoadKw) = rec.loadKw

\* C17: under the smart policy gridToBattKw > 0 in an hour only if the hour
\* is off-peak, the day's total deficit exceeds 0.5, the hour's tariff is at
\* most the off-peak base price plus 0.01, and peak tariff minus the hour's
\* tariff is at least 0.5.
C17_GridChargeOnlyIf ==
    policy.name = "smart" =>
        \A rec \in Records :
            RLt(Zero, rec.gridToBattKw) =>
                /\ rec.hour \notin PEAK_HOURS
                /\ RLt(deficitThreshold,
                       SumOver([h \in Hours |-> deficitAt(dayInputs, h)], Hours))
                /\ RLe(rec.tariff, RAdd(config.baseGridPrice, tariffEpsilon))
                /\ RLe(priceGapThreshold,
                       RSub(RMul(config.baseGridPrice, config.peakFactor), rec.tariff))

\* a smart day that charged from the grid, with a later hour of the same day
\* that did not
C17_Witness ==
    /\ policy.name = "smart"
    /\ CallComplete
    /\ \E rec \in Records : RLt(Zero, rec.gridToBattKw)
    /\ \E rec \in Records : ~rec.isPeak /\ rec.gridToBattKw = Zero

\* The context dispatchHour hands the policy at step 3 of the hour about to
\* be simulated.
dischargeContext ==
    contextOf(solarToBattStep(solarToLoadStep(
                  startHour(hourInputs(dayInputs[i], config), battery))),
              hourInputs(dayInputs[i], config))

HourPending == pc = "loop" /\ i < HoursPerDay

\* C18: the smart policy's allowDischarge returns false exactly when the hour
\* is off-peak and solar covers the load (loadKw <= solarGenKw); it returns
\* true whenever loadKw > solarGenKw and in every peak hour.
C18_AllowDischarge ==
    (HourPending /\ policy.name = "smart") =>
        (allowDischarge(policy, dischargeContext)
            <=> ~(i \notin PEAK_HOURS /\ RLe(dayInputs[i].loadKw, dayInputs[i].solarGenKw)))

\* the smart policy holds back a battery that could have discharged: an
\* off-peak hour with solar covering a non-zero load and the battery above
\* its floor
C18_Witness ==
    /\ HourPending
    /\ policy.name = "smart"
    /\ i \notin PEAK_HOURS
    /\ RLt(Zero, dayInputs[i].loadKw)
    /\ RLe(dayInputs[i].loadKw, dayInputs[i].solarGenKw)
    /\ RLt(battery.minSocKwh, battery.socKwh)
    /\ ~allowDischarge(policy, dischargeContext)

\* The smart call in progress is on a day with a genuine deficit and a
\* peak/off-peak price gap above the threshold.
ArbitrageDay ==
    /\ policy.name = "smart"
    /\ policy.dayHasDeficit
    /\ RLt(priceGapThreshold, RSub(policy.peakTariff, policy.offPeakTariff))

\* the context of the policy callbacks in the hour of record rec
contextAt(rec) ==
    [hour |-> rec.hour, isPeak |-> rec.isPeak, battery |-> battery,
     inputs |-> hourInputs(dayInputs[rec.hour], config)]

\* an off-peak hour with load > solar that precedes the peak window
DeficitHourBeforePeak(rec) ==
    rec.hour < FirstPeakHour /\ RLt(rec.solarGenKw, rec.loadKw)

\* C19 as stated: under the smart policy, on a day with a genuine deficit and
\* a price gap above the threshold, every off-peak hour with load > solar
\* before the peak window has allowGridCharge true and gridToBattKw > 0.
C19_ArbitrageAsStated ==
    ArbitrageDay =>
        \A rec \in Records :
            DeficitHourBeforePeak(rec) =>
                /\ allowGridCharge(policy, contextAt(rec))
                /\ RLt(Zero, rec.gridToBattKw)

\* C19: under the smart policy, on a day with a genuine deficit and a price
\* gap above the threshold, every off-peak hour with load > solar before the
\* peak window has allowGridCharge true, and gridToBattKw > 0 unless the load
\* already takes the whole grid limit or the battery is at or above the
\* hour's target SOC.
C19_Arbitrage ==
    ArbitrageDay =>
        \A rec \in Records :
            DeficitHourBeforePeak(rec) =>
                /\ allowGridCharge(policy, contextAt(rec))
                /\ \/ RLt(Zero, rec.gridToBattKw)
                   \/ RLe(config.gridLimitKw, rec.gridToLoadKw)
                   \/ RLe(targetKwhAt(policy, contextAt(rec)), rec.socKwh)

\* a deficit hour before the peak in which the smart policy charged from the
\* grid, on a battery of positive capacity
C19_Witness ==
    /\ ArbitrageDay
    /\ \E rec \in Records :
          /\ DeficitHourBeforePeak(rec)
          /\ RLt(Zero, rec.gridToBattKw)
          /\ RLt(rec.gridToLoadKw, config.gridLimitKw)
          /\ RLt(rec.socKwh, targetKwhAt(policy, contextAt(rec)))

\* The step taken is a live step: day.hourly of the same day grew by one.
LiveStepTaken ==
    /\ simState'.currentDay = simState.currentDay
    /\ Len(simState'.day.hourly) = Len(simState.day.hourly) + 1

\* the precomputed record of hour h in the trace of the selected mode
precomputedHour(s, smart, h) ==
    IF smart THEN s.day.sim[1].smart.hourly[h + 1] ELSE s.day.sim[1].baseline.hourly[h + 1]

entryMatches(entry, rec) ==
    /\ entry.hour = rec.hour
    /\ entry.solar = rec.solarGenKw
    /\ entry.load = rec.loadKw
    /\ entry.grid = rec.gridImportKw
    /\ entry.diesel = rec.dieselToLoadKw
    /\ entry.cost = rec.cost

\* C20: each live step at hour h records exactly the precomputed hour-h
\* record of the trace (baseline or smart) of the mode selected at that step:
\* solar, load, grid import, diesel and cost of the new day.hourly entry equal
\* those of sim.baseline.hourly[h] or sim.smart.hourly[h]; a step that finds
\* day.sim prepared leaves it as it is (it runs no dispatch of its own).
C20_LiveStepReadsPrecomputed ==
    [][LiveStepTaken =>
          /\ simState'.day.sim # <<>>
          /\ entryMatches(simState'.day.hourly[Len(simState'.day.hourly)],
                          precomputedHour(simState', simState.isSmart, simState.hour))
          /\ simState.day.sim # <<>> => simState'.day.sim = simState.day.sim]_vars

\* a day stepped through in both modes: one entry came from the smart trace,
\* another from the baseline trace, in hours where the two traces differ
C20_Witness ==
    /\ simState.day.sim # <<>>
    /\ \E a, b \in 1..Len(simState.day.hourly) :
          /\ simState.day.sim[1].smart.hourly[a].cost # simState.day.sim[1].baseline.hourly[a].cost
          /\ simState.day.sim[1].smart.hourly[b].cost # simState.day.sim[1].baseline.hourly[b].cost
          /\ simState.day.hourly[a].cost = simState.day.sim[1].smart.hourly[a].cost
          /\ simState.day.hourly[b].cost = simState.day.sim[1].baseline.hourly[b].cost

\* C21: once a day's day.sim (inputs, baseline, smart) is built, no live
\* step, pause or resume, mode toggle or solar / battery / price change
\* rebuilds or alters it; only a reset, a new day, or a run started at hour 0
\* replaces it.
C21_DaySimBuiltOnce ==
    [][(simState.day.sim # <<>> /\ simState'.day.sim # simState.day.sim) =>
          \/ ResetSimulation
          \/ StartNewDay
          \/ (StartSimulation /\ simState.hour = 0)]_vars

\* the run was paused and resumed, the mode toggled or a slider moved while
\* the day was under way, and day.sim is still that of the configuration
\* snapshot taken at hour 0
C21_Witness ==
    /\ simState.hour = HoursPerDay
    /\ Len(simState.day.hourly) = HoursPerDay
    /\ simState.day.config # <<>>
    /\ simState.day.sim # <<>>
    /\ simState.battCap # simState.day.config[1].battCap
    /\ simState.day.sim[1].inputs #
          buildDayInputs(liveTrace(simState), simState.gridCost, PEAK_FACTOR)

\* C22: in every hour record dieselToLoadKw =
\* max(0, loadKw - solarToLoadKw - battToLoadKw - gridLimitKw), so diesel runs
\* only in an hour whose grid-to-load draw has reached the grid limit.
C22_DieselLastResort ==
    \A rec \in Records :
        /\ rec.dieselToLoadKw =
              RMax(Zero, RSub(RSub(RSub(rec.loadKw, rec.solarToLoadKw), rec.battToLoadKw),
                              config.gridLimitKw))
        /\ RLt(Zero, rec.dieselToLoadKw) => RLe(config.gridLimitKw, rec.gridToLoadKw)

\* one hour in which the battery and the grid at its limit leave load for the
\* generator, and one in which the grid below its limit needs no diesel
C22_Witness ==
    /\ \E rec \in Records :
          /\ RLt(Zero, rec.dieselToLoadKw)
          /\ RLt(Zero, rec.battToLoadKw)
          /\ RLt(Zero, config.gridLimitKw)
          /\ rec.gridToLoadKw = config.gridLimitKw
    /\ \E rec \in Records :
          /\ RLt(Zero, rec.gridToLoadKw)
          /\ RLt(rec.gridToLoadKw, config.gridLimitKw)
          /\ rec.dieselToLoadKw = Zero

\* the SOC before the k-th hour record of the call in progress
socBefore(k) == IF k = 1 THEN initialSocKwh ELSE hourly[k - 1].socKwh

\* C23: simulateDay threads one battery through the hours in increasing
\* order: the SOC recorded for an hour equals the SOC recorded for the hour
\* before (the configured initial SOC for hour 0) plus
\* etaC * (solarToBattKw + gridToBattKw) minus battToLoadKw / etaD of that
\* hour, and the battery handed to the next hour holds the last recorded SOC.
C23_SocThreaded ==
    pc = "loop" =>
        /\ \A k \in 1..Len(hourly) :
              /\ hourly[k].hour = k - 1
              /\ hourly[k].socKwh =
                    RSub(RAdd(socBefore(k),
                              RMul(battery.etaC,
                                   RAdd(hourly[k].solarToBattKw, hourly[k].gridToBattKw))),
                         RDiv(hourly[k].battToLoadKw, battery.etaD))
        /\ battery.socKwh = socBefore(Len(hourly) + 1)

\* a whole day in which the battery was charged from solar, charged from the
\* grid and discharged to the load, ending at another SOC than it began with
C23_Witness ==
    /\ CallComplete
    /\ \E rec \in Records : RLt(Zero, rec.solarToBattKw)
    /\ \E rec \in Records : RLt(Zero, rec.gridToBattKw)
    /\ \E rec \in Records : RLt(Zero, rec.battToLoadKw)
    /\ battery.socKwh # initialSocKwh

\* the totals of a sequence of 24 hour records: each field summed over them
totalsOf(recs) ==
    [cost |-> SumOver([h \in Hours |-> recs[h + 1].cost], Hours),
     gridKwh |-> SumOver([h \in Hours |-> recs[h + 1].gridImportKw], Hours),
     dieselKwh |-> SumOver([h \in Hours |-> recs[h + 1].dieselToLoadKw], Hours),
     solarToLoadKwh |-> SumOver([h \in Hours |-> recs[h + 1].solarToLoadKw], Hours),
     solarToBattKwh |-> SumOver([h \in Hours |-> recs[h + 1].solarToBattKw], Hours),
     battToLoadKwh |-> SumOver([h \in Hours |-> recs[h + 1].battToLoadKw], Hours),
     co2Kg |-> SumOver([h \in Hours |-> recs[h + 1].co2Kg], Hours)]

\* C24: simulateDay returns exactly 24 hour records, the i-th with the hour of
\* the i-th input, and each total (cost, gridKwh, dieselKwh, solarToLoadKwh,
\* solarToBattKwh, battToLoadKwh, co2Kg) is the sum of its field over those
\* records, gridKwh summing gridImportKw.
C24_ReturnsDayTotals ==
    \A k \in 1..Len(results) :
        /\ Len(results[k].hourly) = HoursPerDay
        /\ \A h \in Hours : results[k].hourly[h + 1].hour = dayInputs[h].hour
        /\ results[k].totals = totalsOf(results[k].hourly)

\* a returned smart day that charged from the grid and burned diesel: its
\* gridKwh is more than the grid power that went to the load
C24_Witness ==
    /\ Len(results) = 2
    /\ results[2].policy = "smart"
    /\ RLt(Zero, results[2].totals.dieselKwh)
    /\ RLt(Zero, results[2].totals.solarToBattKwh)
    /\ RLt(SumOver([h \in Hours |-> results[2].hourly[h + 1].gridToLoadKw], Hours),
           results[2].totals.gridKwh)

\* the SOC the battery had when the grid charge of record rec was requested
socAtGridCharge(rec) == RSub(rec.socKwh, RMul(battery.etaC, rec.gridToBattKw))

\* C25: smart grid charging never raises the SOC above its target: after an
\* hour with gridToBattKw > 0, socKwh is at most the hour's target and at
\* most 90 % of capacityKwh, and the power charged from the grid is at most
\* min(targetKwh - socKwh, maxChargeKw), socKwh being the SOC at the request.
C25_GridChargeBelowTarget ==
    policy.name = "smart" =>
        \A rec \in Records :
            RLt(Zero, rec.gridToBattKw) =>
                /\ RLe(rec.socKwh, RMul(battery.capacityKwh, targetSocFraction))
                /\ RLe(rec.socKwh, targetKwhAt(policy, contextAt(rec)))
                /\ RLe(rec.gridToBattKw,
                       RMin(RSub(targetKwhAt(policy, contextAt(rec)), socAtGridCharge(rec)),
                            battery.maxChargeKw))

\* a grid charge cut by the target, which the 90 % clamp sets: the battery
\* asked for exactly the gap to 90 % of capacity, less than its charge rate
C25_Witness ==
    /\ policy.name = "smart"
    /\ \E rec \in Records :
          /\ RLt(Zero, rec.gridToBattKw)
          /\ targetKwhAt(policy, contextAt(rec)) = RMul(battery.capacityKwh, targetSocFraction)
          /\ rec.gridToBattKw = RSub(targetKwhAt(policy, contextAt(rec)), socAtGridCharge(rec))
          /\ RLt(rec.gridToBattKw, battery.maxChargeKw)

\* power delivered to the load in the hour of record rec, as billed
deliveredKw(rec) ==
    RAdd(RAdd(rec.solarToLoadKw, rec.battToLoadKw), RAdd(rec.gridToLoadKw, rec.dieselToLoadKw))

\* C26 as stated: in every hour record solarToLoadKw + battToLoadKw +
\* gridToLoadKw + dieselToLoadKw equals loadKw, peak hours included.
C26_LoadBalanceAsStated ==
    \A rec \in Records : deliveredKw(rec) = rec.loadKw

\* the part of the 0.5 kW peak tie-in draw that no load takes
tieInExcessKw(rec) ==
    IF rec.isPeak
    THEN RMax(Zero,
              RSub(minGridDraw,
                   RMin(RSub(RSub(rec.loadKw, rec.solarToLoadKw), rec.battToLoadKw),
                        config.gridLimitKw)))
    ELSE Zero

\* C26 amended: in every off-peak hour record the four flows to the load sum
\* to loadKw; in a peak hour they sum to loadKw plus the part of the 0.5 kW
\* tie-in draw that exceeds the grid power the load needed (and got), so the
\* delivered power never falls short of the load and exceeds it by at most
\* 0.5 kW.
C26_LoadBalance ==
    \A rec \in Records :
        /\ deliveredKw(rec) = RAdd(rec.loadKw, tieInExcessKw(rec))
        /\ RLe(rec.loadKw, deliveredKw(rec))
        /\ RLe(deliveredKw(rec), RAdd(rec.loadKw, minGridDraw))

\* a peak hour whose load the battery covers and which still draws the
\* tie-in 0.5 kW, next to a peak hour in which battery, grid and diesel
\* together deliver exactly the load
C26_Witness ==
    /\ \E rec \in Records :
          /\ rec.isPeak
          /\ RLt(Zero, rec.loadKw)
          /\ rec.battToLoadKw = rec.loadKw
          /\ deliveredKw(rec) = RAdd(rec.loadKw, minGridDraw)
    /\ \E rec \in Records :
          /\ rec.isPeak
          /\ RLt(Zero, rec.gridToLoadKw)
          /\ deliveredKw(rec) = rec.loadKw

\* a day on which the smart policy never asks for a grid charge: no deficit
\* above 0.5 kWh, or a peak tariff less than 0.5 above the off-peak tariff
NoGridChargeDay ==
    \/ ~RLt(deficitThreshold, totalDailyDeficitKwh(dayInputs))
    \/ RLt(RSub(RMul(config.baseGridPrice, config.peakFactor), config.baseGridPrice),
           priceGapThreshold)

\* C27: the smart discharge gate never blocks a discharge that baseline would
\* make: on a day on which the smart policy never grid-charges, the smart run
\* produces, hour by hour, the records of the baseline run on the same inputs
\* and config, and returns the same hourly records and totals.
C27_SmartEqualsBaseline ==
    (Len(results) >= 1 /\ results[1].policy = "baseline" /\ NoGridChargeDay) =>
        /\ (pc = "loop" /\ policy.name = "smart") =>
              /\ \A k \in 1..Len(hourly) : hourly[k] = results[1].hourly[k]
              /\ CallComplete => totals = results[1].totals
        /\ (Len(results) = 2 /\ results[2].policy = "smart") =>
              /\ results[2].hourly = results[1].hourly
              /\ results[2].totals = results[1].totals

\* both runs returned on a flat-tariff day with a deficit, on which the
\* battery was charged from solar and discharged off-peak and grid and diesel
\* were needed
C27_Witness ==
    /\ Len(results) = 2
    /\ NoGridChargeDay
    /\ RLt(deficitThreshold, totalDailyDeficitKwh(dayInputs))
    /\ results[1].policy = "baseline"
    /\ results[2].policy = "smart"
    /\ RLt(Zero, results[2].totals.solarToBattKwh)
    /\ RLt(Zero, results[2].totals.dieselKwh)
    /\ \E h \in Hours \ PEAK_HOURS : RLt(Zero, results[2].hourly[h + 1].battToLoadKw)

\* C28: no hour record has both battToLoadKw > 0 and gridToBattKw > 0: the
\* battery is never discharged to the load and recharged from the grid within
\* the same hour.
C28_NoDischargeAndGridCharge ==
    \A rec \in Records : ~(RLt(Zero, rec.battToLoadKw) /\ RLt(Zero, rec.gridToBattKw))

\* the precomputed full-day totals of the mode recorded in day.config
snapshotTotals(day) ==
    IF day.config[1].isSmart THEN day.sim[1].smart.totals ELSE day.sim[1].baseline.totals

\* C29: when a live run reaches hour 24, the live-accumulated day.cost,
\* day.gridKwh and day.dieselKwh equal the precomputed full-day totals of the
\* mode recorded in day.config.isSmart, whatever pauses, resumes, speed
\* changes and mode toggles happened during the run.
C29_LiveTotalsArePrecomputed ==
    (/\ simState.hour = HoursPerDay
     /\ Len(simState.day.hourly) = HoursPerDay
     /\ simState.day.config # <<>>
     /\ simState.day.sim # <<>>) =>
        /\ simState.day.cost = snapshotTotals(simState.day).cost
        /\ simState.day.gridKwh = snapshotTotals(simState.day).gridKwh
        /\ simState.day.dieselKwh = snapshotTotals(simState.day).dieselKwh

\* at most one stepping timer is active
OneTimer == simState.timers <= 1

\* the live hourly list has simState.hour entries, at most 24, in hour order
HourlyFollowsHour ==
    /\ Len(simState.day.hourly) = simState.hour
    /\ simState.hour <= HoursPerDay
    /\ \A k \in 1..Len(simState.day.hourly) : simState.day.hourly[k].hour = k - 1

\* a day with 24 entries has its configuration snapshot
CompleteDayHasConfig ==
    Len(simState.day.hourly) = HoursPerDay => simState.day.config # <<>>

\* C30: after any sequence of start, pause, speed-change, reset and new-day
\* events and timer ticks, at most one stepping timer is active, the live
\* hourly list has exactly simState.hour entries (never more than 24) with
\* hourly[i].hour = i, and a day that reaches 24 entries has a non-null
\* day.config snapshot.
C30_LiveRunConsistent ==
    /\ OneTimer
    /\ HourlyFollowsHour
    /\ CompleteDayHasConfig

====
